---- MODULE Spec2Model ----
(***************************************************************************)
(* The event registry of observable/core.py (class Observable) as a state  *)
(* machine.  The registry is the mapping _events; callers and handlers are *)
(* user code that calls on, once, off and trigger.  A trigger pass is not  *)
(* atomic: it calls user handlers, which may call the registry again, so   *)
(* the model keeps the Python call stack.  In Spec the user callables      *)
(* return normally and catch the errors of the registry calls they make.   *)
(* SpecRaise adds user callables that raise, SpecCurried the curried form  *)
(* of on, SpecArgs the arguments of trigger, and SpecProperty the members  *)
(* of class ObservableProperty (observable/property.py) of an Observable.  *)
(* SpecOnce keeps one-shot wrappers from being registered again,           *)
(* SpecOnceCurried adds the curried form of once, SpecQuery the queries,   *)
(* SpecLocator the ways a property finds its Observable, and SpecThreads   *)
(* runs off in two threads without a lock.                                 *)
(***************************************************************************)
EXTENDS Naturals, Sequences, FiniteSets

\* ---------------------------------------------------------------- bounds
MaxCalls == 3   \* registry calls made at top level in one behaviour
MaxNested == 1  \* registry calls made from inside handlers in one behaviour
MaxLen   == 3   \* handlers in one event's sequence
MaxArgs  == 2   \* handlers passed to one on / off / once call
MaxOnce  == 1   \* once() calls in one behaviour
MaxDepth == 7   \* frames on the call stack

\* ---------------------------------------------------------------- values
\* Event names are strings; the empty string is one of them.
Events == {"", "a"}
\* off's parameter `event` defaults to None.
None == "<None>"
\* The events an ObservableProperty triggers: "{}_{}".format(action, name),
\* action one of before_get, after_get, before_set, after_set, before_del,
\* after_del.
EventName(action, name) == action \o "_" \o name
PropertyName == "prop"
PropertyEvents ==
  {EventName(when \o "_" \o what, PropertyName) :
     when \in {"before", "after"}, what \in {"get", "set", "del"}}
AllEvents == Events \cup PropertyEvents
\* The user's own callables.
PlainHandlers == {"h1", "h2"}

\* A handler reference.  once = 0: a user callable called name.  once = n > 0:
\* the closure _wrapper made by the n-th once() call, for event `event`,
\* wrapping the callables named in hs.
PlainHandler(h) == [once |-> 0, name |-> h, event |-> None, hs |-> <<>>]
OnceWrapper(n, e, hs) == [once |-> n, name |-> "_wrapper", event |-> e, hs |-> hs]
NoHandler == [once |-> 0, name |-> "-", event |-> None, hs |-> <<>>]

\* The arguments of a call after the event name: positional values and
\* keyword/value pairs.
NoArgs == [pos |-> <<>>, kw |-> {}]
ArgValues == {NoArgs, [pos |-> <<1, 2>>, kw |-> {}], [pos |-> <<2>>, kw |-> {<<"k", 1>>}]}

\* The values the property's getter returns and its setter is given.
Values == {1, 42}
OneArg(v) == [pos |-> <<v>>, kw |-> {}]

\* An ObservableProperty: the names of its accessor functions (None when it has
\* none) and its keyword `event`.  The three are members of an Observable.
\* The keyword `observable` of an ObservableProperty: None, an Observable object
\* or the name of an attribute of the holder.  There are two Observable
\* objects: "obs", whose _events is the variable events, and "other", with
\* which no handler is ever registered.
NoObservable == [type |-> "NoneType", ref |-> None]
ObservableObject(r) == [type |-> "Observable", ref |-> r]
AttributeName(s) == [type |-> "str", ref |-> s]
Observables ==
  {NoObservable, ObservableObject("obs"), ObservableObject("other"),
   AttributeName("events")}

\* The object a property is accessed on: registry is the Observable it is
\* (None when its class does not derive from Observable), events the Observable
\* its attribute `events` holds (None when it has no such attribute).
Holder(r, a) == [registry |-> r, events |-> a]
ObservableHolder == Holder("obs", None)
PlainHolder == Holder(None, None)
Holders == {ObservableHolder, PlainHolder, Holder(None, "obs"), Holder("obs", "other")}

FullProperty ==
  [id |-> "full", fget |-> PropertyName, fset |-> PropertyName,
   fdel |-> PropertyName, event |-> None, observable |-> NoObservable]
ReadOnlyProperty ==
  [id |-> "read_only", fget |-> "get_value", fset |-> None, fdel |-> None,
   event |-> PropertyName, observable |-> NoObservable]
BareProperty ==
  [id |-> "bare", fget |-> None, fset |-> None, fdel |-> None,
   event |-> PropertyName, observable |-> NoObservable]
NoProperty ==
  [id |-> "-", fget |-> None, fset |-> None, fdel |-> None, event |-> None,
   observable |-> NoObservable]
\* ObservableProperty(..., observable=o)
WithObservable(p, o) == [p EXCEPT !.observable = o]
Properties == {FullProperty, ReadOnlyProperty, BareProperty}
Accesses == {"get", "set", "del"}

\* Non-empty argument lists of at most MaxArgs elements of S.
ArgLists(S) == UNION {[1..n -> S] : n \in 1..MaxArgs}

VARIABLES
  events,   \* self._events: event name -> [present, hs]
  stack,    \* the Python call stack below user code, innermost frame last
  exc,      \* the exception in flight, type "none" when there is none
  lastRet,  \* the outcome of the latest registry call that ended
  made,     \* the wrappers once() has returned so far, in creation order
  runs,     \* runs[n]: invocations of wrapped handlers made by wrapper n
  regs,     \* history: per event, the handlers registered and not removed since
  ncalls,   \* registry calls made at top level so far
  nnested,  \* registry calls made from inside handlers so far
  raised,   \* history: the wrappers one of whose handlers has raised
  threads   \* the threads running off() concurrently, none in most specifications

vars == <<events, stack, exc, lastRet, made, runs, regs, ncalls, nnested, raised, threads>>

\* ---------------------------------------------------------------- the mapping
\* defaultdict(list): an absent key has no list.
AbsentEntry == [present |-> FALSE, hs |-> <<>>]
EmptyMapping == [e \in AllEvents |-> AbsentEntry]

\* `event in self._events`
Has(ev, e) == ev[e].present
\* `self._events.get(event, [])`
Get(ev, e) == IF ev[e].present THEN ev[e].hs ELSE <<>>
\* The mapping after `self._events.get(event, [])`: dict.get never calls the
\* defaultdict's factory, where `self._events[event]` would create the entry.
AfterGetItem(ev, e) == [ev EXCEPT ![e] = [present |-> TRUE, hs |-> Get(ev, e)]]
AfterGet(ev, e) == ev
\* `handler in <list>`
In(h, s) == \E k \in 1..Len(s) : s[k] = h

\* get_handlers, get_all_handlers, is_registered
get_handlers(ev, e) == Get(ev, e)
get_all_handlers(ev) == {<<e, ev[e].hs>> : e \in {x \in AllEvents : ev[x].present}}
is_registered(ev, e, h) == In(h, Get(ev, e))

\* list.remove(x): drops the first occurrence.
RECURSIVE ListRemove(_, _)
ListRemove(s, h) ==
  IF s = <<>> THEN <<>>
  ELSE IF Head(s) = h THEN Tail(s)
  ELSE <<Head(s)>> \o ListRemove(Tail(s), h)

\* `while callback in l: l.remove(callback)`
RECURSIVE RemoveAll(_, _)
RemoveFirstOnly(s, h) == ListRemove(s, h)
RemoveAll(s, h) == IF In(h, s) THEN RemoveAll(ListRemove(s, h), h) ELSE s

\* ---------------------------------------------------------------- exceptions
NoExc == [type |-> "none", origin |-> "none", event |-> None, handler |-> NoHandler]
EventNotFound(e, who) ==
  [type |-> "EventNotFound", origin |-> who, event |-> e, handler |-> NoHandler]
HandlerNotFound(e, h, who) ==
  [type |-> "HandlerNotFound", origin |-> who, event |-> e, handler |-> h]
\* An error of the user's own, raised by the callable h.
UserError(h) ==
  [type |-> "UserError", origin |-> "handler", event |-> None, handler |-> h]

\* Python's own error for a call with the wrong number of arguments, and the
\* one _trigger_event raises when it finds no Observable.
TypeError(who) ==
  [type |-> "TypeError", origin |-> who, event |-> None, handler |-> NoHandler]

\* ---------------------------------------------------------------- on
\* _on_wrapper: self._events[event].extend(handlers); the defaultdict creates
\* the entry.
OnExtend(ev, e, hs) == [ev EXCEPT ![e] = [present |-> TRUE, hs |-> Get(ev, e) \o hs]]

\* _on_wrapper(*handlers) of on(e, ...): the mapping it leaves, `return handlers[0]`
OnWrapperReturnsLast(ev, e, hs) == [ev |-> OnExtend(ev, e, hs), ret |-> hs[Len(hs)]]
OnWrapper(ev, e, hs) == [ev |-> OnExtend(ev, e, hs), ret |-> hs[1]]

\* on(event, *handlers): with handlers, what _on_wrapper(*handlers) does and
\* returns; without, the mapping is left alone and the closure _on_wrapper,
\* bound to event, is returned.
on(ev, e, hs) ==
  IF hs # <<>>
  THEN [ev |-> OnWrapper(ev, e, hs).ev, ret |-> OnWrapper(ev, e, hs).ret, bound |-> None]
  ELSE [ev |-> ev, ret |-> NoHandler, bound |-> e]

\* ---------------------------------------------------------------- off
\* `if not event`
Falsy(event) == event = None \/ event = ""

\* the loop `for callback in handlers` of off
RECURSIVE OffLoop(_, _, _, _)
OffLoop(ev, e, hs, who) ==
  IF hs = <<>> THEN [ev |-> ev, exc |-> NoExc]
  ELSE IF ~In(Head(hs), ev[e].hs)
       THEN [ev |-> ev, exc |-> HandlerNotFound(e, Head(hs), who)]
       ELSE OffLoop([ev EXCEPT ![e].hs = RemoveAll(@, Head(hs))], e, Tail(hs), who)

\* `self._events.clear()`
ClearedKeepsKeys(ev) == [e \in AllEvents |-> [ev[e] EXCEPT !.hs = <<>>]]
Cleared(ev) == EmptyMapping

\* off(event, *handlers): the mapping it leaves and the exception it raises.
Off(ev, event, hs, who) ==
  IF Falsy(event) THEN [ev |-> Cleared(ev), exc |-> NoExc]
  ELSE IF ~Has(ev, event) THEN [ev |-> ev, exc |-> EventNotFound(event, who)]
  ELSE IF hs = <<>> THEN [ev |-> [ev EXCEPT ![event] = AbsentEntry], exc |-> NoExc]
  ELSE OffLoop(ev, event, hs, who)

\* ---------------------------------------------------------------- frames
\* kind "trigger": a running trigger(event); callbacks is its local list and i
\*   the position of its for loop.  History kept for the properties: atStart,
\*   the entry of event when trigger was called; called, the callbacks invoked
\*   so far; grown / shrunk, on() appended to / off() removed from the live
\*   sequence of event while the pass was running; after = n, the pass is the
\*   top-level trigger(event) that directly follows the n-th once(event, ...);
\*   second = n, it is the top-level trigger(event) directly following that
\*   one; rereg, user code registered wrapper n again with on() meanwhile;
\*   under = n, the call was made by a handler that wrapper n was running and
\*   wrapper n had not been registered again by then.
\*   failed: a registry call made by user code inside the pass has raised.
\* kind "wrapper": a running _wrapper h, i the position of its for loop;
\*   rereg: user code registered h for its event again while it was running.
\* kind "handler": a running user callable h.
\* kind "property": a running __get__, __set__ or __delete__ (action) of the
\*   ObservableProperty prop; pc is its position, value what the getter
\*   returned, log the events it has triggered and the accessor it has run, in
\*   order; holder the object it is accessed on, registry the Observable
\*   _trigger_event has found for it.
\* args: the arguments (*args, **kw) the frame was called with.
TriggerFrame(e, a, cbs, entry, aft, sec, und) ==
  [kind |-> "trigger", event |-> e, args |-> a, callbacks |-> cbs, i |-> 1,
   called |-> <<>>, h |-> NoHandler, atStart |-> entry, grown |-> FALSE,
   shrunk |-> FALSE, rereg |-> FALSE, failed |-> FALSE, after |-> aft,
   second |-> sec, under |-> und, prop |-> NoProperty, action |-> "-",
   pc |-> "-", value |-> NoArgs, log |-> <<>>, holder |-> PlainHolder,
   registry |-> None]
WrapperFrame(w, a) ==
  [kind |-> "wrapper", event |-> w.event, args |-> a, callbacks |-> <<>>, i |-> 1,
   called |-> <<>>, h |-> w, atStart |-> AbsentEntry, grown |-> FALSE,
   shrunk |-> FALSE, rereg |-> FALSE, failed |-> FALSE, after |-> 0,
   second |-> 0, under |-> 0, prop |-> NoProperty, action |-> "-",
   pc |-> "-", value |-> NoArgs, log |-> <<>>, holder |-> PlainHolder,
   registry |-> None]
HandlerFrame(h, a) ==
  [kind |-> "handler", event |-> None, args |-> a, callbacks |-> <<>>, i |-> 1,
   called |-> <<>>, h |-> h, atStart |-> AbsentEntry, grown |-> FALSE,
   shrunk |-> FALSE, rereg |-> FALSE, failed |-> FALSE, after |-> 0,
   second |-> 0, under |-> 0, prop |-> NoProperty, action |-> "-",
   pc |-> "-", value |-> NoArgs, log |-> <<>>, holder |-> PlainHolder,
   registry |-> None]
PropertyFrame(p, what, a) ==
  [kind |-> "property", event |-> None, args |-> a, callbacks |-> <<>>, i |-> 1,
   called |-> <<>>, h |-> NoHandler, atStart |-> AbsentEntry, grown |-> FALSE,
   shrunk |-> FALSE, rereg |-> FALSE, failed |-> FALSE, after |-> 0,
   second |-> 0, under |-> 0, prop |-> p, action |-> what,
   pc |-> "before", value |-> NoArgs, log |-> <<>>, holder |-> ObservableHolder,
   registry |-> None]

Top == stack[Len(stack)]
Pop(st) == SubSeq(st, 1, Len(st) - 1)
ReplaceTop(st, f) == [st EXCEPT ![Len(st)] = f]

\* The record of a call that ended: result is "True", "False", "None"
\* (off), "handler" (on and once return a handler, in value), "raise" (exc is
\* the exception) or "running" (a trigger pass that has started).
Ret(op, e, args, res, val, x, f, isTop) ==
  [op |-> op, event |-> e, args |-> args, result |-> res, value |-> val, exc |-> x,
   passed |-> f.args, atStart |-> f.atStart, called |-> f.called, grown |-> f.grown,
   shrunk |-> f.shrunk, rereg |-> f.rereg, failed |-> f.failed, after |-> f.after,
   second |-> f.second, under |-> f.under, prop |-> f.prop, got |-> f.value,
   log |-> f.log, holder |-> f.holder, registry |-> f.registry, top |-> isTop]
NoFrame == HandlerFrame(NoHandler, NoArgs)
NoRet == Ret("none", None, <<>>, "None", NoHandler, NoExc, NoFrame, TRUE)

\* on() ran for event e: the passes of e now running have seen their live
\* sequence grow, and the running wrappers among hs are registered again.
MarkGrown(st, e, hs) ==
  [k \in 1..Len(st) |->
     IF st[k].kind = "trigger" /\ st[k].event = e
     THEN [st[k] EXCEPT !.grown = TRUE,
                        !.rereg = @ \/ \E j \in 1..Len(hs) : hs[j].once = st[k].after
                                                              /\ hs[j].once > 0]
     ELSE IF st[k].kind = "wrapper" /\ st[k].event = e /\ In(st[k].h, hs)
          THEN [st[k] EXCEPT !.rereg = TRUE]
          ELSE st[k]]

\* off() ran: the passes whose live sequence lost handlers or its entry.
MarkShrunk(st, old, new) ==
  [k \in 1..Len(st) |->
     IF st[k].kind = "trigger" /\ old[st[k].event] # new[st[k].event]
     THEN [st[k] EXCEPT !.shrunk = TRUE]
     ELSE st[k]]

\* A registry call made by user code raised: the passes running then.
MarkFailed(st) ==
  [k \in 1..Len(st) |->
     IF st[k].kind = "trigger" THEN [st[k] EXCEPT !.failed = TRUE] ELSE st[k]]

\* ---------------------------------------------------------------- history
\* What the calls made so far have registered and removed, call by call:
\* on(e, hs) registers hs for e; off() removes everything; off(e) removes the
\* handlers of e; off(e, h1, ..., hn) removes from e the handlers it was given,
\* one after the other, up to the first one that is not registered for e then
\* (none when it raised EventNotFound).
Without(s, h) == SelectSeq(s, LAMBDA x : x # h)
RECURSIVE WithoutUpToMissing(_, _)
WithoutUpToMissing(s, hs) ==
  IF hs = <<>> \/ ~In(Head(hs), s) THEN s
  ELSE WithoutUpToMissing(Without(s, Head(hs)), Tail(hs))
Registered(rg, e, hs) == [rg EXCEPT ![e] = @ \o hs]
Removed(rg, event, hs, x) ==
  IF event = None THEN [e \in AllEvents |-> <<>>]
  ELSE IF x.type = "EventNotFound" THEN rg
  ELSE IF hs = <<>> THEN [rg EXCEPT ![event] = <<>>]
  ELSE [rg EXCEPT ![event] = WithoutUpToMissing(@, hs)]

\* ---------------------------------------------------------------- initial state
Init ==
  /\ events = EmptyMapping
  /\ stack = <<>>
  /\ exc = NoExc
  /\ lastRet = NoRet
  /\ made = <<>>
  /\ runs = [n \in 1..MaxOnce |-> 0]
  /\ regs = [e \in AllEvents |-> <<>>]
  /\ ncalls = 0
  /\ nnested = 0
  /\ raised = {}
  /\ threads = <<>>

\* ---------------------------------------------------------------- user calls
\* User code runs at top level (empty stack) or inside a handler.
AtTop == stack = <<>>
InHandler == stack # <<>> /\ Top.kind = "handler"
CanCall ==
  /\ exc = NoExc
  /\ (AtTop /\ ncalls < MaxCalls) \/ (InHandler /\ nnested < MaxNested)
\* one more call made
Counted ==
  /\ ncalls' = IF AtTop THEN ncalls + 1 ELSE ncalls
  /\ nnested' = IF AtTop THEN nnested ELSE nnested + 1

\* The handler references user code holds: its own callables and the wrappers
\* once() returned.
Known == {PlainHandler(h) : h \in PlainHandlers} \cup {made[n] : n \in 1..Len(made)}

\* on(event, *handlers), handlers non-empty
OnCall(e, hs) ==
  /\ CanCall
  /\ Len(Get(events, e)) + Len(hs) <= MaxLen
  /\ events' = on(events, e, hs).ev
  /\ stack' = MarkGrown(stack, e, hs)
  /\ lastRet' = Ret("on", e, hs, "handler", on(events, e, hs).ret, NoExc, NoFrame, AtTop)
  /\ regs' = Registered(regs, e, hs)
  /\ Counted
  /\ UNCHANGED <<raised, threads, exc, made, runs>>

\* on(event)(*handlers), as in `@obs.on(event)`: on returns the closure, which
\* is called with the handlers at once.
OnCurriedCall(e, hs) ==
  /\ CanCall
  /\ Len(Get(events, e)) + Len(hs) <= MaxLen
  /\ LET c == on(events, e, <<>>)
         r == OnWrapper(c.ev, c.bound, hs)
     IN /\ events' = r.ev
        /\ lastRet' = Ret("on_curried", e, hs, "handler", r.ret, NoExc, NoFrame, AtTop)
  /\ stack' = MarkGrown(stack, e, hs)
  /\ regs' = Registered(regs, e, hs)
  /\ Counted
  /\ UNCHANGED <<raised, threads, exc, made, runs>>

\* once(event, *handlers), handlers non-empty: self.on(event, _once_wrapper(*handlers))
OnceCall(e, hs) ==
  /\ CanCall
  /\ Len(made) < MaxOnce
  /\ Len(Get(events, e)) < MaxLen
  /\ LET w == OnceWrapper(Len(made) + 1, e, hs) IN
       /\ events' = OnExtend(events, e, <<w>>)
       /\ stack' = MarkGrown(stack, e, <<w>>)
       /\ made' = Append(made, w)
       /\ lastRet' = Ret("once", e, hs, "handler", w, NoExc, NoFrame, AtTop)
       /\ regs' = Registered(regs, e, <<w>>)
  /\ Counted
  /\ UNCHANGED <<raised, threads, exc, runs>>

\* once(event) returns `lambda x: self.on(event, _once_wrapper(x))`; the lambda
\* called with the arguments xs as wrapper number n: it takes exactly one
\* argument, any other number is Python's TypeError and nothing is registered.
OnceLambda(ev, e, n, xs) ==
  IF Len(xs) = 1
  THEN [ev |-> on(ev, e, <<OnceWrapper(n, e, xs)>>).ev,
        ret |-> on(ev, e, <<OnceWrapper(n, e, xs)>>).ret, exc |-> NoExc]
  ELSE [ev |-> ev, ret |-> NoHandler, exc |-> TypeError("user")]

\* once(event)(*handlers), as in `@obs.once(event)`: once returns the lambda,
\* which is called with the handlers at once.
OnceCurriedCall(e, hs) ==
  /\ CanCall
  /\ Len(made) < MaxOnce
  /\ Len(Get(events, e)) < MaxLen
  /\ LET r == OnceLambda(events, e, Len(made) + 1, hs) IN
       /\ events' = r.ev
       /\ lastRet' = Ret("once_curried", e, hs,
                         IF r.exc = NoExc THEN "handler" ELSE "raise",
                         r.ret, r.exc, NoFrame, AtTop)
       /\ stack' = IF r.exc = NoExc THEN MarkGrown(stack, e, <<r.ret>>)
                   ELSE MarkFailed(stack)
       /\ made' = IF r.exc = NoExc THEN Append(made, r.ret) ELSE made
       /\ regs' = IF r.exc = NoExc THEN Registered(regs, e, <<r.ret>>) ELSE regs
  /\ Counted
  /\ UNCHANGED <<raised, threads, exc, runs>>

\* off(event, *handlers).  An exception it raises reaches the user code that
\* called it.  off() without an event name takes no handlers.
OffCall(event, hs) ==
  /\ CanCall
  /\ event = None => hs = <<>>
  /\ LET r == Off(events, event, hs, "user") IN
       /\ events' = r.ev
       /\ lastRet' = Ret("off", event, hs,
                         IF r.exc = NoExc THEN "None" ELSE "raise",
                         NoHandler, r.exc, NoFrame, AtTop)
       /\ stack' = IF r.exc = NoExc THEN MarkShrunk(stack, events, r.ev)
                   ELSE MarkFailed(stack)
       /\ regs' = Removed(regs, event, hs, r.exc)
  /\ Counted
  /\ UNCHANGED <<raised, threads, exc, made, runs>>

\* ---------------------------------------------------------------- trigger
\* callbacks = list(self._events.get(event, []))
Snapshot(ev, e) == Get(ev, e)

\* The list the for loop of trigger walks: its own copy.
CallbacksLive(f, ev) == Get(ev, f.event)
Callbacks(f, ev) == f.callbacks

\* `if not callbacks`
NoCallbacksNever(cbs) == FALSE
NoCallbacks(cbs) == cbs = <<>>

\* trigger(event, *args, **kw): no callbacks, return False; else start the pass.
TriggerCall(e, a) ==
  /\ CanCall
  /\ LET cbs == Snapshot(events, e)
         prev == lastRet.top /\ lastRet.event = e /\ AtTop
         aft == IF prev /\ lastRet.op = "once" THEN lastRet.value.once ELSE 0
         sec == IF prev /\ lastRet.op = "trigger" /\ lastRet.result = "True"
                        /\ ~lastRet.rereg
                THEN lastRet.after ELSE 0
         und == IF Len(stack) >= 2 /\ stack[Len(stack) - 1].kind = "wrapper"
                                   /\ ~stack[Len(stack) - 1].rereg
                THEN stack[Len(stack) - 1].h.once ELSE 0
         f == TriggerFrame(e, a, cbs, events[e], aft, sec, und)
     IN IF NoCallbacks(cbs)
        THEN /\ stack' = stack
             /\ lastRet' = Ret("trigger", e, <<>>, "False", NoHandler, NoExc, f, AtTop)
        ELSE /\ Len(stack) + 3 <= MaxDepth
             /\ stack' = Append(stack, f)
             /\ lastRet' = Ret("trigger", e, <<>>, "running", NoHandler, NoExc, f, AtTop)
  /\ events' = AfterGet(events, e)
  /\ Counted
  /\ UNCHANGED <<raised, threads, exc, made, runs, regs>>

\* get_handlers(event): list(self._events.get(event, []))
GetHandlersCall(e) ==
  /\ CanCall
  /\ events' = AfterGet(events, e)
  /\ lastRet' = Ret("get_handlers", e, <<>>, "list", NoHandler, NoExc,
                    [NoFrame EXCEPT !.atStart = events[e],
                                    !.called = get_handlers(events, e)], AtTop)
  /\ Counted
  /\ UNCHANGED <<raised, threads, stack, exc, made, runs, regs>>

\* is_registered(event, handler): handler in self._events.get(event, [])
IsRegisteredCall(e, h) ==
  /\ CanCall
  /\ events' = AfterGet(events, e)
  /\ lastRet' = Ret("is_registered", e, <<h>>,
                    IF is_registered(events, e, h) THEN "True" ELSE "False",
                    NoHandler, NoExc, [NoFrame EXCEPT !.atStart = events[e]], AtTop)
  /\ Counted
  /\ UNCHANGED <<raised, threads, stack, exc, made, runs, regs>>

\* get_all_handlers(): walks self._events.items() and copies each list.
GetAllHandlersCall ==
  /\ CanCall
  /\ lastRet' = Ret("get_all_handlers", None, <<>>, "dict", NoHandler, NoExc,
                    NoFrame, AtTop)
  /\ Counted
  /\ UNCHANGED <<raised, threads, events, stack, exc, made, runs, regs>>

InPass == exc = NoExc /\ stack # <<>> /\ Top.kind = "trigger"

\* `for callback in callbacks: callback(*args, **kw)` with a user callable
InvokeHandler ==
  /\ InPass
  /\ Top.i <= Len(Callbacks(Top, events))
  /\ LET cb == Callbacks(Top, events)[Top.i] IN
       /\ cb.once = 0
       /\ stack' = Append(ReplaceTop(stack, [Top EXCEPT !.i = @ + 1,
                                                        !.called = Append(@, cb)]),
                          HandlerFrame(cb, Top.args))
  /\ UNCHANGED <<raised, threads, events, exc, lastRet, made, runs, regs, ncalls, nnested>>

\* The first statement of _wrapper: self.off(event, _wrapper).
NoSelfOff(ev, w) == [ev |-> ev, exc |-> NoExc]
SelfOff(ev, w) == Off(ev, w.event, <<w>>, "wrapper")

\* `callback(*args, **kw)` with a one-shot wrapper: it unregisters itself, then
\* starts its own loop; the exception of its off() propagates into the pass.
InvokeWrapper ==
  /\ InPass
  /\ Top.i <= Len(Callbacks(Top, events))
  /\ LET cb == Callbacks(Top, events)[Top.i]
         r == SelfOff(events, cb)
         st == MarkShrunk(ReplaceTop(stack, [Top EXCEPT !.i = @ + 1,
                                                        !.called = Append(@, cb)]),
                          events, r.ev)
     IN /\ cb.once > 0
        /\ events' = r.ev
        /\ exc' = r.exc
        /\ stack' = IF r.exc = NoExc THEN Append(st, WrapperFrame(cb, Top.args))
                   ELSE st
        /\ lastRet' = Ret("off", cb.event, <<cb>>,
                          IF r.exc = NoExc THEN "None" ELSE "raise",
                          NoHandler, r.exc, NoFrame, FALSE)
        /\ regs' = Removed(regs, cb.event, <<cb>>, r.exc)
  /\ UNCHANGED <<raised, threads, made, runs, ncalls, nnested>>

\* the arguments _wrapper(*args, **kw) hands to `handler(*args, **kw)`
WrapperArgsNoKw(a) == [a EXCEPT !.kw = {}]
WrapperArgs(a) == a

\* `for handler in handlers: handler(*args, **kw)` of _wrapper
WrapperInvoke ==
  /\ exc = NoExc /\ stack # <<>> /\ Top.kind = "wrapper"
  /\ Top.i <= Len(Top.h.hs)
  /\ stack' = Append(ReplaceTop(stack, [Top EXCEPT !.i = @ + 1]),
                     HandlerFrame(PlainHandler(Top.h.hs[Top.i]), WrapperArgs(Top.args)))
  /\ runs' = [runs EXCEPT ![Top.h.once] = @ + 1]
  /\ UNCHANGED <<raised, threads, events, exc, lastRet, made, regs, ncalls, nnested>>

\* _wrapper returns after its last handler
WrapperReturn ==
  /\ exc = NoExc /\ stack # <<>> /\ Top.kind = "wrapper"
  /\ Top.i > Len(Top.h.hs)
  /\ stack' = Pop(stack)
  /\ UNCHANGED <<raised, threads, events, exc, lastRet, made, runs, regs, ncalls, nnested>>

\* a user callable returns
HandlerReturn ==
  /\ exc = NoExc /\ InHandler
  /\ stack' = Pop(stack)
  /\ UNCHANGED <<raised, threads, events, exc, lastRet, made, runs, regs, ncalls, nnested>>

\* An exception leaves the user callable on top of st: when a _wrapper called
\* it, one of that wrapper's handlers has raised.
RaisedUnder(st) ==
  IF Len(st) >= 2 /\ st[Len(st)].kind = "handler" /\ st[Len(st) - 1].kind = "wrapper"
  THEN raised \cup {st[Len(st) - 1].h.once}
  ELSE raised

\* a user callable raises an error of its own
HandlerRaise ==
  /\ exc = NoExc /\ InHandler
  /\ exc' = UserError(Top.h)
  /\ stack' = Pop(stack)
  /\ raised' = RaisedUnder(stack)
  /\ UNCHANGED <<threads, events, lastRet, made, runs, regs, ncalls, nnested>>

\* `return True` after the loop
TriggerReturn ==
  /\ InPass
  /\ Top.i > Len(Callbacks(Top, events))
  /\ stack' = Pop(stack)
  /\ lastRet' = Ret("trigger", Top.event, <<>>, "True", NoHandler, NoExc, Top,
                    Len(stack) = 1)
  /\ UNCHANGED <<raised, threads, events, exc, made, runs, regs, ncalls, nnested>>

\* An exception in flight leaves the innermost frame: trigger and _wrapper have
\* no try block; a user callable that did not catch it is left as well.
UnwindSwallow ==
  /\ exc # NoExc /\ stack # <<>>
  /\ exc' = IF Top.kind = "trigger" THEN NoExc ELSE exc
  /\ stack' = IF Top.kind = "trigger" THEN stack ELSE Pop(stack)
  /\ UNCHANGED <<raised, threads, events, lastRet, made, runs, regs, ncalls, nnested>>
Unwind ==
  /\ exc # NoExc /\ stack # <<>>
  /\ stack' = IF Top.kind = "trigger" THEN MarkFailed(Pop(stack)) ELSE Pop(stack)
  /\ lastRet' = IF Top.kind = "trigger"
                THEN Ret("trigger", Top.event, <<>>, "raise", NoHandler, exc, Top,
                         Len(stack) = 1)
                ELSE IF Top.kind = "property"
                     THEN Ret(Top.action, None, <<>>, "raise", NoHandler, exc, Top,
                              Len(stack) = 1)
                     ELSE lastRet
  /\ raised' = RaisedUnder(stack)
  /\ UNCHANGED <<threads, events, exc, made, runs, regs, ncalls, nnested>>

\* A user callable catches the exception of the trigger() it called.
HandlerCatch ==
  /\ exc # NoExc /\ InHandler
  /\ exc' = NoExc
  /\ UNCHANGED <<raised, threads, events, stack, lastRet, made, runs, regs, ncalls, nnested>>

\* The exception reaches the top-level caller.
Surface ==
  /\ exc # NoExc /\ stack = <<>>
  /\ exc' = NoExc
  /\ UNCHANGED <<raised, threads, events, stack, lastRet, made, runs, regs, ncalls, nnested>>

\* ---------------------------------------------------------------- ObservableProperty
AttributeError ==
  [type |-> "AttributeError", origin |-> "property", event |-> None, handler |-> NoHandler]

\* self.fget, self.fset, self.fdel
Accessor(p, what) ==
  IF what = "get" THEN p.fget ELSE IF what = "set" THEN p.fset ELSE p.fdel
\* `if self.fget is not None` (fset, fdel alike) before the before_ event
GuardAlways(p, what) == TRUE
Guard(p, what) == Accessor(p, what) # None
\* _trigger_event: name = alt_name if self.event is None else self.event;
\* event = "{}_{}".format(action, name)
TriggerEvent(p, alt_name, action) ==
  EventName(action, IF p.event = None THEN alt_name ELSE p.event)
\* getattr(holder, name) of an attribute the holder does not have
GetattrError ==
  [type |-> "AttributeError", origin |-> "getattr", event |-> None, handler |-> NoHandler]
\* _trigger_event: the Observable to trigger on.  HolderFirst looks at the
\* holder before the keyword.
LocateObservableHolderFirst(p, holder) ==
  IF holder.registry # None
  THEN [registry |-> holder.registry, exc |-> NoExc]
  ELSE IF p.observable.type = "Observable"
  THEN [registry |-> p.observable.ref, exc |-> NoExc]
  ELSE IF p.observable.type = "str"
  THEN IF holder.events # None
       THEN [registry |-> holder.events, exc |-> NoExc]
       ELSE [registry |-> None, exc |-> GetattrError]
  ELSE [registry |-> None, exc |-> TypeError("property")]
LocateObservable(p, holder) ==
  IF p.observable.type = "Observable"
  THEN [registry |-> p.observable.ref, exc |-> NoExc]
  ELSE IF p.observable.type = "str"
  THEN IF holder.events # None
       THEN [registry |-> holder.events, exc |-> NoExc]
       ELSE [registry |-> None, exc |-> GetattrError]
  ELSE IF holder.registry # None
  THEN [registry |-> holder.registry, exc |-> NoExc]
  ELSE [registry |-> None, exc |-> TypeError("property")]
\* the _events of an Observable object
MappingOf(r) == IF r = "obs" THEN events ELSE EmptyMapping
\* the arguments of the before_ and the after_ event
BeforeArgs(f) == IF f.action = "set" THEN f.args ELSE NoArgs
AfterArgs(f) ==
  IF f.action = "set" THEN f.args ELSE IF f.action = "get" THEN f.value ELSE NoArgs
Logged(f, e, a) == [f EXCEPT !.log = Append(@, [event |-> e, args |-> a])]

\* obj.prop, obj.prop = v, del obj.prop: __get__, __set__, __delete__ start
PropertyAccess(p, what, a) ==
  /\ CanCall
  /\ Len(stack) + 4 <= MaxDepth
  /\ stack' = Append(stack, PropertyFrame(p, what, a))
  /\ Counted
  /\ UNCHANGED <<raised, threads, events, exc, lastRet, made, runs, regs>>

\* the same on the object holder
PropertyAccessOn(holder, p, what, a) ==
  /\ CanCall
  /\ Len(stack) + 4 <= MaxDepth
  /\ stack' = Append(stack, [PropertyFrame(p, what, a) EXCEPT !.holder = holder])
  /\ Counted
  /\ UNCHANGED <<raised, threads, events, exc, lastRet, made, runs, regs>>

InProperty == exc = NoExc /\ stack # <<>> /\ Top.kind = "property"

\* _trigger_event: it raises when it finds no Observable, else calls
\* observable.trigger(event, *event_args) while the property frame goes on as f
PropertyTrigger(f, e, a) ==
  LET loc == LocateObservable(f.prop, f.holder)
      g == Logged([f EXCEPT !.registry = loc.registry], e, a)
      cbs == Snapshot(MappingOf(loc.registry), e)
      t == TriggerFrame(e, a, cbs, MappingOf(loc.registry)[e], 0, 0, 0)
  IN IF loc.exc # NoExc
     THEN /\ exc' = loc.exc
          /\ stack' = stack
          /\ lastRet' = lastRet
     ELSE /\ exc' = exc
          /\ IF NoCallbacks(cbs)
             THEN /\ stack' = ReplaceTop(stack, g)
                  /\ lastRet' = Ret("trigger", e, <<>>, "False", NoHandler, NoExc, t, FALSE)
             ELSE /\ stack' = Append(ReplaceTop(stack, g), t)
                  /\ lastRet' = Ret("trigger", e, <<>>, "running", NoHandler, NoExc, t, FALSE)

\* `if self.fget is not None: self._trigger_event(..., "before_get")`
PropertyBefore ==
  /\ InProperty /\ Top.pc = "before"
  /\ LET f == [Top EXCEPT !.pc = "access"] IN
       IF Guard(Top.prop, Top.action)
       THEN PropertyTrigger(f, TriggerEvent(Top.prop, Accessor(Top.prop, Top.action),
                                            "before_" \o Top.action),
                            BeforeArgs(Top))
       ELSE stack' = ReplaceTop(stack, f) /\ lastRet' = lastRet /\ exc' = exc
  /\ UNCHANGED <<raised, threads, events, made, runs, regs, ncalls, nnested>>

\* super().__get__ / __set__ / __delete__: the built-in property raises
\* AttributeError without an accessor, else runs it; the getter returns a value.
PropertyRun ==
  /\ InProperty /\ Top.pc = "access"
  /\ IF Accessor(Top.prop, Top.action) = None
     THEN /\ exc' = AttributeError
          /\ stack' = stack
          /\ lastRet' = lastRet
     ELSE /\ exc' = exc
          /\ \E v \in Values :
               /\ Top.action # "get" => \A u \in Values : v <= u
               /\ stack' = ReplaceTop(stack,
                    Logged([Top EXCEPT !.pc = "after",
                                       !.value = IF Top.action = "get" THEN OneArg(v)
                                                 ELSE NoArgs],
                           Accessor(Top.prop, Top.action) \o "()", NoArgs))
          /\ lastRet' = lastRet
  /\ UNCHANGED <<raised, threads, events, made, runs, regs, ncalls, nnested>>

\* `self._trigger_event(..., "after_get", value)`
PropertyAfter ==
  /\ InProperty /\ Top.pc = "after"
  /\ PropertyTrigger([Top EXCEPT !.pc = "return"],
                     TriggerEvent(Top.prop, Accessor(Top.prop, Top.action),
                                  "after_" \o Top.action),
                     AfterArgs(Top))
  /\ UNCHANGED <<raised, threads, events, made, runs, regs, ncalls, nnested>>

\* the access ends
PropertyReturn ==
  /\ InProperty /\ Top.pc = "return"
  /\ stack' = Pop(stack)
  /\ lastRet' = Ret(Top.action, None, <<>>, "None", NoHandler, NoExc, Top,
                    Len(stack) = 1)
  /\ UNCHANGED <<raised, threads, events, exc, made, runs, regs, ncalls, nnested>>

\* ---------------------------------------------------------------- threads
\* Two threads run off(event, h) on the same Observable without a lock.  The
\* interpreter may switch threads between any two of the steps below; each
\* step (a test, a `in`, a list.remove) is atomic.
\* list.remove(x) of an x that is not in the list
ValueError(h) ==
  [type |-> "ValueError", origin |-> "list.remove", event |-> None, handler |-> h]

\* A thread about to call off(e, h).  pc: "start", "event" (before `if event
\* not in self._events`), "if" (before `if callback not in ...`), "while"
\* (before the test of the while loop), "remove" (before list.remove), "done"
\* (off returned), "raised" (off raised exc).
Thread(e, h) == [pc |-> "start", event |-> e, h |-> h, exc |-> NoExc]
ThreadEnded(t) == t.pc \in {"done", "raised"}

\* One step of the thread t on the mapping ev: where the thread is next, the
\* exception it raises and the mapping it leaves.  back is where a thread goes
\* after a list.remove.
OffStepFrom(t, ev, back) ==
  LET e == t.event
      l == Get(ev, e)
      at(pc) == [pc |-> pc, exc |-> NoExc, ev |-> ev]
      raise(x) == [pc |-> "raised", exc |-> x, ev |-> ev]
  IN CASE t.pc = "start" ->
            IF Falsy(e) THEN [pc |-> "done", exc |-> NoExc, ev |-> Cleared(ev)]
            ELSE at("event")
       [] t.pc = "event" ->
            IF ~Has(ev, e) THEN raise(EventNotFound(e, "user")) ELSE at("if")
       [] t.pc = "if" ->
            IF ~In(t.h, l) THEN raise(HandlerNotFound(e, t.h, "user")) ELSE at("while")
       [] t.pc = "while" ->
            IF In(t.h, l) THEN at("remove") ELSE at("done")
       [] t.pc = "remove" ->
            IF In(t.h, l)
            THEN [pc |-> back, exc |-> NoExc,
                  ev |-> [ev EXCEPT ![e] = [present |-> TRUE, hs |-> ListRemove(l, t.h)]]]
            ELSE raise(ValueError(t.h))

\* `while callback in self._events[event]: self._events[event].remove(callback)`:
\* after a removal the test of the loop is next.
OffStepRemoveOnce(t, ev) == OffStepFrom(t, ev, "done")
OffStep(t, ev) == OffStepFrom(t, ev, "while")

\* thread i takes its next step
ThreadStep(i) ==
  /\ i \in 1..Len(threads)
  /\ ~ThreadEnded(threads[i])
  /\ LET r == OffStep(threads[i], events) IN
       /\ threads' = [threads EXCEPT ![i] = [@ EXCEPT !.pc = r.pc, !.exc = r.exc]]
       /\ events' = r.ev
  /\ UNCHANGED <<stack, exc, lastRet, made, runs, regs, ncalls, nnested, raised>>

\* The sequences of at most MaxLen user callables.
HandlerLists ==
  {<<>>} \cup UNION {[1..n -> {PlainHandler(h) : h \in PlainHandlers}] : n \in 1..MaxLen}

\* An Observable on which user callables have been registered for one event,
\* or none, and two threads about to call off(e, h) with the same e and h.
InitThreads ==
  /\ \E e \in Events, h \in PlainHandlers, o \in Events :
       /\ threads = <<Thread(e, PlainHandler(h)), Thread(e, PlainHandler(h))>>
       /\ \E l \in HandlerLists :
            /\ events = IF l = <<>> THEN EmptyMapping ELSE OnExtend(EmptyMapping, o, l)
            /\ regs = Registered([x \in AllEvents |-> <<>>], o, l)
  /\ stack = <<>>
  /\ exc = NoExc
  /\ lastRet = NoRet
  /\ made = <<>>
  /\ runs = [n \in 1..MaxOnce |-> 0]
  /\ ncalls = 0
  /\ nnested = 0
  /\ raised = {}
NextThreads == \E i \in {1, 2} : ThreadStep(i)
SpecThreads == InitThreads /\ [][NextThreads]_vars

Next ==
  \/ \E e \in Events, hs \in ArgLists(Known) : OnCall(e, hs)
  \/ \E e \in Events, hs \in ArgLists(PlainHandlers) : OnceCall(e, hs)
  \/ \E e \in Events \cup {None}, hs \in ArgLists(Known) \cup {<<>>} : OffCall(e, hs)
  \/ \E e \in Events : TriggerCall(e, NoArgs)
  \/ InvokeHandler
  \/ InvokeWrapper
  \/ WrapperInvoke
  \/ WrapperReturn
  \/ HandlerReturn
  \/ TriggerReturn
  \/ Unwind
  \/ HandlerCatch
  \/ Surface

Spec == Init /\ [][Next]_vars

\* User callables that may also raise errors of their own.
NextRaise == Next \/ HandlerRaise
SpecRaise == Init /\ [][NextRaise]_vars

\* on used in its curried form as well.
NextCurried ==
  \/ Next
  \/ \E e \in Events, hs \in ArgLists(Known) : OnCurriedCall(e, hs)
SpecCurried == Init /\ [][NextCurried]_vars

\* An Observable with ObservableProperty members: handlers are registered for
\* the property's events and the properties are read, written and deleted.
NextProperty ==
  \/ \E e \in PropertyEvents, h \in Known : OnCall(e, <<h>>)
  \/ \E e \in PropertyEvents, h \in PlainHandlers : OnceCall(e, <<h>>)
  \/ \E e \in PropertyEvents \cup {None} : OffCall(e, <<>>)
  \/ \E p \in Properties, what \in Accesses, v \in Values :
       PropertyAccess(p, what, IF what = "set" THEN OneArg(v) ELSE NoArgs)
  \/ PropertyBefore
  \/ PropertyRun
  \/ PropertyAfter
  \/ PropertyReturn
  \/ InvokeHandler
  \/ InvokeWrapper
  \/ WrapperInvoke
  \/ WrapperReturn
  \/ HandlerReturn
  \/ TriggerReturn
  \/ Unwind
  \/ HandlerCatch
  \/ Surface
SpecProperty == Init /\ [][NextProperty]_vars

\* Properties with every kind of `observable`, accessed on every kind of
\* holder, while user callables are registered for the property's events
\* with the Observable "obs".
LocatorProperties ==
  {WithObservable(FullProperty, o) : o \in Observables} \cup {ReadOnlyProperty}
NextLocator ==
  \/ \E e \in PropertyEvents : OnCall(e, <<PlainHandler("h1")>>)
  \/ \E holder \in Holders, p \in LocatorProperties, what \in Accesses :
       PropertyAccessOn(holder, p, what, IF what = "set" THEN OneArg(42) ELSE NoArgs)
  \/ PropertyBefore
  \/ PropertyRun
  \/ PropertyAfter
  \/ PropertyReturn
  \/ InvokeHandler
  \/ HandlerReturn
  \/ TriggerReturn
  \/ Unwind
  \/ HandlerCatch
  \/ Surface
SpecLocator == Init /\ [][NextLocator]_vars

\* User code that never hands a wrapper returned by once() to on() again; its
\* callables may raise.
NextOnce ==
  \/ \E e \in Events, hs \in ArgLists({PlainHandler(h) : h \in PlainHandlers}) :
       OnCall(e, hs)
  \/ \E e \in Events, hs \in ArgLists(PlainHandlers) : OnceCall(e, hs)
  \/ \E e \in Events \cup {None}, hs \in ArgLists(Known) \cup {<<>>} : OffCall(e, hs)
  \/ \E e \in Events : TriggerCall(e, NoArgs)
  \/ InvokeHandler
  \/ InvokeWrapper
  \/ WrapperInvoke
  \/ WrapperReturn
  \/ HandlerReturn
  \/ HandlerRaise
  \/ TriggerReturn
  \/ Unwind
  \/ HandlerCatch
  \/ Surface
SpecOnce == Init /\ [][NextOnce]_vars

\* once used in its curried form as well.
NextOnceCurried ==
  \/ Next
  \/ \E e \in Events, hs \in ArgLists(PlainHandlers) : OnceCurriedCall(e, hs)
SpecOnceCurried == Init /\ [][NextOnceCurried]_vars

\* User code that also queries the registry.
NextQuery ==
  \/ Next
  \/ \E e \in Events : GetHandlersCall(e)
  \/ \E e \in Events, h \in Known : IsRegisteredCall(e, h)
  \/ GetAllHandlersCall
SpecQuery == Init /\ [][NextQuery]_vars

\* trigger called with arguments.
NextArgs ==
  \/ Next
  \/ \E e \in Events, a \in ArgValues : TriggerCall(e, a)
SpecArgs == Init /\ [][NextArgs]_vars

\* ================================================================ properties
NonEmpty(entry) == entry.present /\ entry.hs # <<>>
IsPrefix(s, t) == Len(s) <= Len(t) /\ s = SubSeq(t, 1, Len(s))
Count(h, s) == Cardinality({k \in 1..Len(s) : s[k] = h})
\* a trigger call that has ended, by return or by exception
Ended(r) == r.op = "trigger" /\ r.result # "running"

\* C1 (as claimed): a trigger(e) that found a non-empty sequence for e has, when
\* it ends, invoked exactly the handlers of that sequence, in its order, one
\* invocation per occurrence, and has returned True.
C1_TriggerInvokesAllThenTrue ==
  (Ended(lastRet) /\ NonEmpty(lastRet.atStart)) =>
    /\ lastRet.result = "True"
    /\ lastRet.called = lastRet.atStart.hs

C3_OccurrencesMatchRegistrations ==
  /\ \A e \in Events : \A h \in Known : Count(h, Get(events, e)) = Count(h, regs[e])
  /\ (Ended(lastRet) /\ lastRet.result = "True") =>
       \A h \in Known : Count(h, lastRet.called) = Count(h, lastRet.atStart.hs)

\* C4 (as claimed): the top-level trigger(e) that directly follows once(e, h)
\* ends having returned True and invoked h exactly once, with the wrapper out
\* of the sequence of e; the top-level trigger(e) that directly follows it, when
\* e has no other handler, returns False without invoking h.
C4_OnceThenTrigger ==
  /\ (Ended(lastRet) /\ lastRet.top /\ lastRet.after > 0 /\ ~lastRet.rereg) =>
       LET w == made[lastRet.after] IN
         Len(w.hs) = 1 =>
           /\ lastRet.result = "True"
           /\ runs[w.once] = 1
           /\ ~In(w, Get(events, lastRet.event))
  /\ (Ended(lastRet) /\ lastRet.top /\ lastRet.second > 0) =>
       LET w == made[lastRet.second]
           cur == lastRet.atStart.hs
       IN (Len(w.hs) = 1 /\ \A k \in 1..Len(cur) : cur[k] = w) =>
            (lastRet.result = "False" /\ runs[w.once] = 1)

\* C5: a running one-shot wrapper that user code has not registered again is
\* not in the live sequence of its event, is not entered a second time, and is
\* not among the handlers a trigger of its event finds when one of the wrapped
\* handlers issues it (which returns False when nothing else is registered).
C5_WrapperRemovedBeforeHandlers ==
  /\ \A k \in 1..Len(stack) :
       (stack[k].kind = "wrapper" /\ ~stack[k].rereg) =>
         /\ ~In(stack[k].h, Get(events, stack[k].h.event))
         /\ \A j \in (k + 1)..Len(stack) :
              /\ ~(stack[j].kind = "wrapper" /\ stack[j].h = stack[k].h)
              /\ (stack[j].kind = "trigger" /\ stack[j].under = stack[k].h.once
                  /\ stack[j].event = stack[k].h.event) =>
                   ~In(stack[k].h, stack[j].atStart.hs)
  /\ (lastRet.op = "trigger" /\ lastRet.under > 0
      /\ lastRet.event = made[lastRet.under].event) =>
        /\ ~In(made[lastRet.under], lastRet.atStart.hs)
        /\ lastRet.atStart.hs = <<>> => lastRet.result = "False"

\* C5 witness: a handler given to once(e, ...) is running and the trigger(e) it
\* issued has returned False.
C5_Witness ==
  /\ Len(stack) >= 2 /\ Top.kind = "handler"
  /\ stack[Len(stack) - 1].kind = "wrapper"
  /\ lastRet.op = "trigger" /\ lastRet.under = stack[Len(stack) - 1].h.once
  /\ lastRet.event = stack[Len(stack) - 1].h.event
  /\ lastRet.result = "False"

C7_OffDuringPass ==
  /\ (Ended(lastRet) /\ lastRet.shrunk) => lastRet.called = lastRet.atStart.hs
  /\ (lastRet.op = "off" /\ lastRet.result = "None" /\ lastRet.event # None) =>
       \A k \in 1..Len(lastRet.args) :
         ~In(lastRet.args[k], Get(events, lastRet.event))

\* C8 (as claimed): every off(e) and off(e, h, ...) made while e is not a key of
\* the mapping raises EventNotFound carrying e and leaves the mapping as it was.
C8_OffAbsentEventRaises ==
  [][\A e \in Events, hs \in ArgLists(Known) \cup {<<>>} :
       (OffCall(e, hs) /\ ~Has(events, e)) =>
         /\ lastRet'.result = "raise"
         /\ lastRet'.exc.type = "EventNotFound"
         /\ lastRet'.exc.event = e
         /\ events' = events]_vars

\* C9 (as claimed): every off(e, h) made while e is a key and h is not in its
\* sequence raises HandlerNotFound carrying e and h and leaves the mapping as it
\* was.
C9_OffMissingHandlerRaises ==
  [][\A e \in Events, h \in Known :
       (OffCall(e, <<h>>) /\ Has(events, e) /\ ~In(h, events[e].hs)) =>
         /\ lastRet'.result = "raise"
         /\ lastRet'.exc.type = "HandlerNotFound"
         /\ lastRet'.exc.event = e
         /\ lastRet'.exc.handler = h
         /\ events' = events]_vars

\* C10 (as claimed): every off(e, h) made while h is in the sequence of e
\* succeeds and leaves e a key whose sequence is the old one without the
\* occurrences of h, the other handlers in their order; h is not registered
\* for e any more.
C10_OffRemovesEveryOccurrence ==
  [][\A e \in Events, h \in Known :
       (OffCall(e, <<h>>) /\ Has(events, e) /\ In(h, events[e].hs)) =>
         /\ lastRet'.result = "None"
         /\ Has(events', e)
         /\ events'[e].hs = Without(events[e].hs, h)
         /\ ~is_registered(events', e, h)]_vars

\* C11 (as claimed): every off(e) without handlers made while e is a key of the
\* mapping succeeds and deletes the entry: directly afterwards e is not a key,
\* get_all_handlers() does not list e, and a second off(e) raises EventNotFound.
C11_OffEventDeletesEntry ==
  [][\A e \in Events :
       (OffCall(e, <<>>) /\ Has(events, e)) =>
         /\ lastRet'.result = "None"
         /\ ~Has(events', e)
         /\ \A p \in get_all_handlers(events') : p[1] # e
         /\ Off(events', e, <<>>, "user").exc = EventNotFound(e, "user")]_vars

\* C12: off() without an event name raises nothing in any reachable state;
\* after it the mapping has no entry, get_all_handlers() is empty and stays so
\* until the next registration, and a trigger of any event called next returns
\* False.
C12_OffAllClears ==
  /\ [](Off(events, None, <<>>, "user").exc = NoExc)
  /\ []((lastRet.op = "off" /\ lastRet.event = None) =>
          /\ lastRet.result = "None"
          /\ events = EmptyMapping
          /\ get_all_handlers(events) = {})
  /\ [][\A e \in Events :
          (TriggerCall(e, NoArgs) /\ lastRet.op = "off" /\ lastRet.event = None) =>
            lastRet'.result = "False"]_vars

\* C12 witness: a handler called off() during a pass whose event had handlers;
\* the mapping is empty while the pass is still running.
C12_Witness ==
  /\ lastRet.op = "off" /\ lastRet.event = None /\ lastRet.result = "None"
  /\ InHandler
  /\ \E k \in 1..Len(stack) : stack[k].kind = "trigger" /\ stack[k].shrunk
  /\ events = EmptyMapping

\* C13 (as claimed): a trigger call during which every registry call made by
\* user code succeeded ends by returning True or False or by propagating an
\* error a user callable raised, never EventNotFound or HandlerNotFound.
C13_TriggerNeverRaisesLookupErrors ==
  (Ended(lastRet) /\ ~lastRet.failed) =>
    \/ lastRet.result \in {"True", "False"}
    \/ lastRet.result = "raise" /\ lastRet.exc.type = "UserError"

\* C14: an error raised by a user callable leaves every _wrapper and trigger
\* frame it meets as it is: the frame ends, no further handler of its loop is
\* invoked, the mapping is not touched, and the trigger call ends by raising
\* that very error, with no return value; the handlers it has invoked are a
\* prefix of its snapshot that ends with the handler that raised.
C14_HandlerErrorPropagates ==
  /\ [][(exc.type = "UserError" /\ stack # <<>> /\ Top.kind # "handler") =>
          /\ exc' = exc
          /\ events' = events
          /\ Len(stack') = Len(stack) - 1
          /\ \A k \in 1..Len(stack') :
               stack'[k].i = stack[k].i /\ stack'[k].called = stack[k].called
          /\ Top.kind = "trigger" =>
               /\ lastRet'.op = "trigger" /\ lastRet'.event = Top.event
               /\ lastRet'.result = "raise" /\ lastRet'.exc = exc
               /\ lastRet'.called = Top.called]_vars
  /\ []((Ended(lastRet) /\ lastRet.exc.type = "UserError") =>
          /\ lastRet.result = "raise"
          /\ lastRet.called # <<>>
          /\ IsPrefix(lastRet.called, lastRet.atStart.hs)
          /\ nnested = 0 =>
               LET c == lastRet.called[Len(lastRet.called)] IN
                 \/ c = lastRet.exc.handler
                 \/ c.once > 0 /\ In(lastRet.exc.handler.name, c.hs))

\* C14 witness: a top-level trigger has ended by the error of its first handler,
\* which had removed a handler of the event before; the second handler of the
\* snapshot was not invoked and the error is reaching the caller.
C14_Witness ==
  /\ Ended(lastRet) /\ lastRet.result = "raise" /\ lastRet.exc.type = "UserError"
  /\ stack = <<>> /\ exc = lastRet.exc
  /\ Len(lastRet.called) < Len(lastRet.atStart.hs)
  /\ lastRet.shrunk
  /\ Get(events, lastRet.event) # lastRet.atStart.hs

\* C17: every running handler and every running _wrapper holds exactly the
\* arguments of the trigger call that invoked it, and a pass holds the arguments
\* trigger was called with.
C17_ArgumentsPassedThrough ==
  /\ [](\A k \in 1..Len(stack) :
          stack[k].kind \in {"handler", "wrapper"} =>
            /\ k > 1
            /\ stack[k - 1].kind \in {"trigger", "wrapper"}
            /\ stack[k].args = stack[k - 1].args)
  /\ [][\A e \in Events, a \in ArgValues :
          (TriggerCall(e, a) /\ stack' # stack) => stack'[Len(stack')].args = a]_vars

\* C17 witness: a handler wrapped by once() runs with positional and keyword
\* arguments inside a pass that a handler of another pass, called with other
\* arguments, has started.
C17_Witness ==
  /\ Len(stack) >= 5
  /\ Top.kind = "handler" /\ Top.args.kw # {} /\ Top.args.pos # <<>>
  /\ stack[Len(stack) - 1].kind = "wrapper"
  /\ stack[2].kind = "handler" /\ stack[2].args # Top.args /\ stack[2].args # NoArgs

\* the first handler of hs that is not in s once the ones before it are removed
RECURSIVE FirstMissing(_, _)
FirstMissing(s, hs) ==
  IF hs = <<>> THEN NoHandler
  ELSE IF ~In(Head(hs), s) THEN Head(hs)
  ELSE FirstMissing(Without(s, Head(hs)), Tail(hs))

\* C15 (as claimed): every off(e, h1, ..., hn) made while e is a key takes its
\* handlers from left to right; when one of them is not in the sequence of e at
\* its turn, off raises HandlerNotFound for it, the ones before it are out of
\* the sequence (every occurrence) and nothing else has changed; when all are
\* there, off returns and every occurrence of each of them is out.
C15_OffLeftToRight ==
  [][\A e \in Events, hs \in ArgLists(Known) :
       (OffCall(e, hs) /\ Has(events, e)) =>
         LET miss == FirstMissing(events[e].hs, hs) IN
           /\ events' = [events EXCEPT ![e].hs = WithoutUpToMissing(@, hs)]
           /\ miss = NoHandler =>
                /\ lastRet'.result = "None"
                /\ \A k \in 1..Len(hs) : ~In(hs[k], events'[e].hs)
           /\ miss # NoHandler =>
                /\ lastRet'.result = "raise"
                /\ lastRet'.exc.type = "HandlerNotFound"
                /\ lastRet'.exc.event = e
                /\ lastRet'.exc.handler = miss]_vars

\* e is a key of ev with an empty sequence, and the registry treats it so
PresentButEmpty(ev, e) ==
  /\ Has(ev, e) /\ ev[e].hs = <<>>
  /\ <<e, <<>>>> \in get_all_handlers(ev)
  /\ NoCallbacks(Snapshot(ev, e))
  /\ Off(ev, e, <<>>, "user").exc = NoExc
\* the sequence s holds h and nothing else
OnlyHandler(s, h) == s # <<>> /\ \A k \in 1..Len(s) : s[k] = h

\* C18 (as claimed): when off(e, h) removes the last handler of e, and when a
\* one-shot wrapper that is the last handler of its event e fires, e stays a
\* key with an empty sequence: get_all_handlers() lists it with no handler, a
\* trigger(e) would return False and an off(e) would succeed.
C18_PresentButEmpty ==
  /\ [][\A e \in Events, h \in Known :
          (OffCall(e, <<h>>) /\ Has(events, e) /\ OnlyHandler(events[e].hs, h)) =>
            PresentButEmpty(events', e)]_vars
  /\ [][(InvokeWrapper /\ LET cb == Callbacks(Top, events)[Top.i] IN
                           OnlyHandler(Get(events, cb.event), cb)) =>
          PresentButEmpty(events', Callbacks(Top, events)[Top.i].event)]_vars

\* C16: in every reachable state, for every event e and non-empty handler list
\* hs, on(e)(hs) and on(e, hs) leave the same mapping and return the same value;
\* either call makes e a key, appends hs in order to its sequence, leaves the
\* other events alone and returns the first handler of hs.
C16_CurriedOnEquivalent ==
  /\ [](\A e \in Events, hs \in ArgLists(Known) :
          LET c == on(events, e, <<>>)
              curried == OnWrapper(c.ev, c.bound, hs)
              direct == on(events, e, hs)
          IN /\ c.ev = events
             /\ curried.ev = direct.ev /\ curried.ret = direct.ret)
  /\ [][\A e \in Events, hs \in ArgLists(Known) :
          (OnCurriedCall(e, hs) \/ OnCall(e, hs)) =>
            /\ Has(events', e)
            /\ events'[e].hs = Get(events, e) \o hs
            /\ \A o \in Events \ {e} : events'[o] = events[o]
            /\ lastRet'.result = "handler"
            /\ lastRet'.value = hs[1]]_vars

\* C16 witness: a handler has used the curried form with two handlers during a
\* pass of an event that had handlers already; they are the tail of the live
\* sequence.
C16_Witness ==
  /\ lastRet.op = "on_curried" /\ Len(lastRet.args) = 2
  /\ lastRet.args[1] # lastRet.args[2]
  /\ lastRet.value = lastRet.args[1]
  /\ InHandler
  /\ Len(Get(events, lastRet.event)) = 3
  /\ SubSeq(Get(events, lastRet.event), 2, 3) = lastRet.args

\* what the claim says an access of the property named prop does, in order:
\* the before_ event, the accessor, the after_ event, with their arguments
ClaimedLog(what, a, v) ==
  << [event |-> "before_" \o what \o "_prop",
      args |-> IF what = "set" THEN a ELSE NoArgs],
     [event |-> "prop()", args |-> NoArgs],
     [event |-> "after_" \o what \o "_prop",
      args |-> IF what = "set" THEN a ELSE IF what = "get" THEN v ELSE NoArgs] >>

\* C19 (as claimed): every get, set and delete of the property prop that has
\* getter, setter and deleter has, when it ends, triggered its before_ event,
\* run the accessor and triggered its after_ event, each once, in that order
\* and with the claimed arguments; while it runs it has done a prefix of that.
C19_PropertyEventsInOrder ==
  /\ (lastRet.op \in Accesses /\ lastRet.prop = FullProperty) =>
       /\ lastRet.result = "None"
       /\ lastRet.log = ClaimedLog(lastRet.op, lastRet.passed, lastRet.got)
  /\ \A k \in 1..Len(stack) :
       (stack[k].kind = "property" /\ stack[k].prop = FullProperty) =>
         IsPrefix(stack[k].log,
                  ClaimedLog(stack[k].action, stack[k].args, stack[k].value))

\* the accesses a property has no accessor for
Unsupported(p, what) ==
  \/ p = BareProperty
  \/ p = ReadOnlyProperty /\ what \in {"set", "del"}

\* C20: an access of a property that has no accessor for it triggers no event
\* and invokes no handler while it runs, leaves the mapping as it is, and ends
\* by raising AttributeError.
C20_UnsupportedAccessSilent ==
  /\ [](\A k \in 1..Len(stack) :
          (stack[k].kind = "property" /\ Unsupported(stack[k].prop, stack[k].action)) =>
            stack[k].log = <<>> /\ k = Len(stack))
  /\ []((lastRet.op \in Accesses /\ Unsupported(lastRet.prop, lastRet.op)) =>
          /\ lastRet.result = "raise"
          /\ lastRet.exc = AttributeError
          /\ lastRet.log = <<>>)
  /\ [][(stack # <<>> /\ Top.kind = "property" /\ Unsupported(Top.prop, Top.action)) =>
          /\ events' = events /\ runs' = runs
          /\ Len(stack') <= Len(stack)]_vars

\* C20 witness: a write of the read-only property has raised AttributeError at
\* top level while handlers are registered for before_set_prop and
\* after_set_prop.
C20_Witness ==
  /\ lastRet.op = "set" /\ lastRet.prop = ReadOnlyProperty
  /\ lastRet.result = "raise" /\ lastRet.exc = AttributeError
  /\ stack = <<>> /\ exc = AttributeError
  /\ NonEmpty(events["before_set_prop"]) /\ NonEmpty(events["after_set_prop"])

\* C21 (as claimed): every off(e) and off(e, h, ...) with e a string, the empty
\* string included, leaves the entry of every other event name as it was,
\* whether it returns or raises.
C21_OffChangesOnlyItsEvent ==
  [][\A e \in Events, hs \in ArgLists(Known) \cup {<<>>} :
       OffCall(e, hs) => \A o \in AllEvents \ {e} : events'[o] = events[o]]_vars

\* C22 (as claimed): when no wrapper is registered a second time, a one-shot
\* wrapper starts to run its handlers only when none of them has been invoked
\* yet, and the handlers of one once() call are invoked no more often than
\* there are handlers in that call.
C22_OneShotAtMostOnce ==
  /\ [](\A n \in 1..Len(made) : runs[n] <= Len(made[n].hs))
  /\ [][\A n \in 1..Len(made) :
          (InvokeWrapper /\ exc' = NoExc /\ Callbacks(Top, events)[Top.i] = made[n]) =>
            runs[n] = 0]_vars

\* C25 (as claimed): once a handler given to once(e, ...) has raised, the
\* wrapper is not in the sequence of e and no handler of that once() call is
\* invoked any more, neither the ones after it nor, by a retry, any of them.
C25_RaisingOneShotNotRetried ==
  /\ [](\A n \in raised : ~In(made[n], Get(events, made[n].event)))
  /\ [][\A n \in raised : runs'[n] = runs[n]]_vars

\* C23 (as claimed): for every non-empty handler list hs, once(e)(hs) raises
\* nothing, appends the one wrapper of hs to the sequence of e and returns it,
\* as once(e, hs) does; the other events are left alone.
C23_CurriedOnceEquivalent ==
  [][\A e \in Events, hs \in ArgLists(PlainHandlers) :
       (OnceCurriedCall(e, hs) \/ OnceCall(e, hs)) =>
         LET w == OnceWrapper(Len(made) + 1, e, hs) IN
           /\ lastRet'.result = "handler"
           /\ lastRet'.value = w
           /\ Has(events', e)
           /\ events'[e].hs = Get(events, e) \o <<w>>
           /\ made' = Append(made, w)
           /\ \A o \in Events \ {e} : events'[o] = events[o]]_vars

\* C24 (as claimed): get_handlers(e), get_all_handlers(), is_registered(e, h)
\* and a trigger(e) that finds e absent or empty leave the mapping unchanged;
\* when e was not a key, off(e) called next raises EventNotFound and
\* get_all_handlers() does not list e.
C24_QueriesLeaveMapping ==
  [][\A e \in Events :
       (\/ GetHandlersCall(e)
        \/ \E h \in Known : IsRegisteredCall(e, h)
        \/ GetAllHandlersCall
        \/ TriggerCall(e, NoArgs) /\ ~NonEmpty(events[e])) =>
         /\ events' = events
         /\ ~Has(events, e) =>
              /\ Off(events', e, <<>>, "user").exc = EventNotFound(e, "user")
              /\ \A l \in get_all_handlers(events') : l[1] # e]_vars

\* the Observable the claim says a property with keyword p.observable uses
\* when accessed on holder (None: there is none)
ClaimedRegistry(p, holder) ==
  IF p.observable.type = "Observable" THEN p.observable.ref
  ELSE IF p.observable.type = "str" THEN holder.events
  ELSE holder.registry
NoneApplies(p, holder) == p.observable.type = "NoneType" /\ holder.registry = None
\* a step in which a property access has triggered one of its events
PropertyTriggered ==
  /\ PropertyBefore \/ PropertyAfter
  /\ exc' = NoExc
  /\ Len(stack'[Len(stack)].log) = Len(Top.log) + 1

\* C26: every event of a property access is triggered on the Observable passed
\* as observable, else on the attribute of the holder a string observable
\* names, else on the holder when it is an Observable: the pass starts from
\* that Observable's sequence and runs its handlers.  When none applies, an
\* access the property has an accessor for ends by raising TypeError, having
\* triggered no event, run no accessor and no handler and left the mapping as
\* it is.
C26_RegistryPriority ==
  /\ [][PropertyTriggered =>
          LET r == ClaimedRegistry(Top.prop, Top.holder) IN
            /\ r # None
            /\ stack'[Len(stack)].registry = r
            /\ lastRet'.op = "trigger"
            /\ lastRet'.atStart = MappingOf(r)[lastRet'.event]
            /\ Len(stack') = Len(stack) + 1 <=> NonEmpty(MappingOf(r)[lastRet'.event])]_vars
  /\ [](\A k \in 1..Len(stack) :
          (/\ stack[k].kind = "property"
           /\ NoneApplies(stack[k].prop, stack[k].holder)
           /\ Guard(stack[k].prop, stack[k].action)) =>
            stack[k].log = <<>> /\ stack[k].pc = "before" /\ k = Len(stack))
  /\ []((/\ lastRet.op \in Accesses
         /\ NoneApplies(lastRet.prop, lastRet.holder)
         /\ Guard(lastRet.prop, lastRet.op)) =>
          /\ lastRet.result = "raise"
          /\ lastRet.exc = TypeError("property")
          /\ lastRet.log = <<>>
          /\ lastRet.got = NoArgs)
  /\ [][(/\ stack # <<>> /\ Top.kind = "property"
         /\ NoneApplies(Top.prop, Top.holder)
         /\ Guard(Top.prop, Top.action)) =>
          events' = events /\ Len(stack') <= Len(stack)]_vars

\* C26 witness: a handler that a property access invoked, after finding the
\* Observable in the holder's attribute named by a string, has written a
\* property of a plain object without observable keyword and caught the
\* TypeError, while a handler is registered for before_set_prop.
C26_Witness ==
  /\ InHandler /\ exc = NoExc
  /\ stack[1].kind = "property"
  /\ stack[1].prop.observable = AttributeName("events")
  /\ stack[1].holder = Holder(None, "obs")
  /\ stack[1].registry = "obs"
  /\ lastRet.op = "set" /\ lastRet.prop = FullProperty /\ lastRet.holder = PlainHolder
  /\ lastRet.result = "raise" /\ lastRet.exc = TypeError("property")
  /\ NonEmpty(events["before_set_prop"])

\* C27 (as claimed): a thread's off(e, h) that raises raises EventNotFound or
\* HandlerNotFound, and once both threads' calls have ended h is not in the
\* sequence of e.
C27_ConcurrentOffTwoErrors ==
  /\ \A i \in 1..Len(threads) :
       threads[i].pc = "raised" =>
         threads[i].exc.type \in {"EventNotFound", "HandlerNotFound"}
  /\ (threads # <<>> /\ \A i \in 1..Len(threads) : ThreadEnded(threads[i])) =>
       ~In(threads[1].h, Get(events, threads[1].event))

\* C27 (amended): a thread's off(e, h) that raises raises EventNotFound,
\* HandlerNotFound or the ValueError of list.remove, the last when the other
\* thread removed the last occurrence of h after this thread's test of the
\* while loop; a call that has ended has returned or raised, and once both
\* calls have ended h is not in the sequence of e.
C27_ConcurrentOffThreeErrors ==
  /\ \A i \in 1..Len(threads) :
       /\ threads[i].pc = "raised" =>
            threads[i].exc \in {EventNotFound(threads[i].event, "user"),
                                HandlerNotFound(threads[i].event, threads[i].h, "user"),
                                ValueError(threads[i].h)}
       /\ threads[i].pc # "raised" => threads[i].exc = NoExc
  /\ (threads # <<>> /\ \A i \in 1..Len(threads) : ThreadEnded(threads[i])) =>
       ~In(threads[1].h, Get(events, threads[1].event))

\* C27 witness: h1 was registered three times for the event a among nothing
\* else; one thread's off("a", h1) has returned and the other's has raised
\* ValueError, and the sequence of a is empty.
C27_Witness ==
  /\ threads # <<>>
  /\ threads[1].event = "a" /\ threads[1].h = PlainHandler("h1")
  /\ regs["a"] = <<PlainHandler("h1"), PlainHandler("h1"), PlainHandler("h1")>>
  /\ threads[1].pc = "done"
  /\ threads[2].pc = "raised" /\ threads[2].exc = ValueError(PlainHandler("h1"))
  /\ PresentButEmpty(events, "a")
====
